---- MODULE Spec2Model ----
\* Model of picasso/ml_frameworks/model.py: the BaseModel interface and the
\* generate_model factory.  Python values are modelled as follows:
\*   - raw targets / preprocessed inputs / predictions are integer tokens;
\*     the helper's "run" callable and a subclass's _predict are injective
\*     maps on tokens that are not the identity;
\*   - a probability is an integer number of 1/10000;
\*   - a str is a sequence of one-character strings;
\*   - the outcome of a call is [kind, val, calls, warns]: kind is "return"
\*     or "raise", val the returned value or the exception's class name,
\*     calls the calls made in order, warns the warnings.warn messages.
EXTENDS Integers, Sequences, FiniteSets, TLC

\* ---------------------------------------------------------------- bounds
MaxTop == 3          \* largest top_probs passed explicitly
MaxKwargs == 2       \* most extra keyword arguments in one construction
MaxRaw == 2          \* raw-target tokens are 1..MaxRaw
MaxRows == 2         \* most rows of an output_arr
MaxClasses == 2      \* most classes per row

DefaultTop == 5

\* ------------------------------------------------------- the environment
\* Objects a caller may pass as preprocessor / postprocessor / prob_decoder:
\* one helper module with a working callable, a callable that raises
\* AttributeError from its own body, and one that raises ValueError.
HelperMethods == [run |-> "ok", bad_attr |-> "AttributeError", bad_val |-> "ValueError"]

ObjKeys == {"preprocessor", "postprocessor", "prob_decoder"}
NameKeys == {"preprocessor_name", "postprocessor_name", "prob_decoder_name"}
ExtraKeys == ObjKeys \cup NameKeys \cup {"data_dir"}

KeyVals(key) ==
    IF key \in ObjKeys THEN {"Helper"}
    ELSE IF key \in NameKeys THEN (DOMAIN HelperMethods) \cup {"nope"}
    ELSE {"dirA"}

AllVals == UNION {KeyVals(key) : key \in ExtraKeys}

\* **kwargs without top_probs: any map from at most MaxKwargs keys
KwMaps ==
    UNION {{f \in [S -> AllVals] : \A key \in S : f[key] \in KeyVals(key)} :
           S \in {T \in SUBSET ExtraKeys : Cardinality(T) <= MaxKwargs}}

\* the top_probs argument: not passed, or passed as k
TopChoices == {[given |-> FALSE, top |-> 0]} \cup {[given |-> TRUE, top |-> k] : k \in 0..MaxTop}

Raw == 1..MaxRaw

\* the probabilities 0.1004, 0.2008 and 0.7006, in units of 1/10000
Probs == {1004, 2008, 7006}

RECURSIVE SeqsUpTo(_, _)
SeqsUpTo(S, n) ==
    IF n = 0 THEN {<<>>}
    ELSE LET shorter == SeqsUpTo(S, n - 1)
         IN  shorter \cup {Append(s, x) : s \in {t \in shorter : Len(t) = n - 1}, x \in S}

Rows == SeqsUpTo(Probs, MaxClasses)
Arrays == SeqsUpTo(Rows, MaxRows)
\* the arrays the lifecycle specification feeds to decode_prob
SmallArrays == {a \in Arrays : Len(a) <= 1 /\ \A r \in 1..Len(a) : Len(a[r]) <= 2}

\* the helper's working callable and a subclass's inference, on tokens
Run(x) == x + 10
Infer(x) == x + 100

\* Source files generate_model may be pointed at, and the classes each binds.
Modules ==
    [models |-> [ok |-> TRUE, classes |-> {"GoodModel", "BareModel", "Plain", "Strict"}],
     broken |-> [ok |-> FALSE, classes |-> {}]]

Paths == DOMAIN Modules
ClassNames == {"GoodModel", "BareModel", "Plain", "Strict", "Missing"}

\* base: derives from BaseModel; ctor: "BaseModel" (inherited __init__),
\* "own" (takes **kwargs, sets nothing), "noargs" (takes no keyword at all);
\* impl: overrides load and _predict.
ClassInfo ==
    [BaseModel |-> [base |-> TRUE,  ctor |-> "BaseModel", impl |-> FALSE],
     GoodModel |-> [base |-> TRUE,  ctor |-> "BaseModel", impl |-> TRUE],
     BareModel |-> [base |-> TRUE,  ctor |-> "BaseModel", impl |-> FALSE],
     Plain     |-> [base |-> FALSE, ctor |-> "own",       impl |-> FALSE],
     Strict    |-> [base |-> TRUE,  ctor |-> "noargs",    impl |-> FALSE]]

\* ------------------------------------------------------------- outcomes
Ret(v, c, w) == [kind |-> "return", val |-> v, calls |-> c, warns |-> w]
Exc(e, c, w) == [kind |-> "raise", val |-> e, calls |-> c, warns |-> w]

NoAttrs == [key \in {} |-> 0]
NoInst == [cls |-> "none", attrs |-> NoAttrs]

\* ------------------------------------------------------------ BaseModel
\* a constructor that forgets the setattr loop
BaseModel__init__nokw(cls, t, kw) ==
    [cls |-> cls, attrs |-> [key \in {"top_probs"} |-> IF t.given THEN t.top ELSE DefaultTop]]

\* __init__(self, top_probs=5, **kwargs)
BaseModel__init__(cls, t, kw) ==
    LET top_probs == IF t.given THEN t.top ELSE DefaultTop
    IN  [cls |-> cls,
         attrs |-> [key \in {"top_probs"} \cup DOMAIN kw |->
                       IF key = "top_probs" THEN top_probs ELSE kw[key]]]

\* BaseModel.load: raise NotImplementedError (GoodModel overrides it)
load(self, data_dir) ==
    IF ClassInfo[self.cls].impl
    THEN Ret("None", <<>>, <<>>)
    ELSE Exc("NotImplementedError", <<>>, <<>>)

\* a base _predict that hands its input back instead of raising
_predict_passthrough(self, targets) == Ret(targets, <<>>, <<>>)

\* BaseModel._predict: raise NotImplementedError (GoodModel overrides it)
_predict(self, targets) ==
    IF ClassInfo[self.cls].impl
    THEN Ret(Infer(targets), <<>>, <<>>)
    ELSE Exc("NotImplementedError", <<>>, <<>>)

\* getattr(self.<objKey>, self.<nameKey>)(x, **kw): the body of the try
\* blocks of preprocess, postprocess and decode_prob.  y is what the helper's
\* working callable returns for these arguments.
CallDelegate(self, objKey, nameKey, x, kw, y) ==
    LET a == self.attrs
    IN  IF objKey \notin DOMAIN a THEN Exc("AttributeError", <<>>, <<>>)
        ELSE IF nameKey \notin DOMAIN a THEN Exc("AttributeError", <<>>, <<>>)
        ELSE IF a[nameKey] \notin DOMAIN HelperMethods THEN Exc("AttributeError", <<>>, <<>>)
        ELSE LET m == a[nameKey]
                 call == <<[fn |-> "delegate", obj |-> objKey, method |-> m, arg |-> x, kw |-> kw]>>
             IN  IF HelperMethods[m] = "ok" THEN Ret(y, call, <<>>)
                 ELSE Exc(HelperMethods[m], call, <<>>)

\* preprocess without the except clause
preprocess_uncaught(self, raw_targets) ==
    CallDelegate(self, "preprocessor", "preprocessor_name", raw_targets, {}, Run(raw_targets))

preprocess(self, raw_targets) ==
    LET d == CallDelegate(self, "preprocessor", "preprocessor_name", raw_targets, {}, Run(raw_targets))
    IN  IF d.kind = "raise" /\ d.val = "AttributeError"
        THEN Ret(raw_targets, d.calls, <<"Evaluating without preprocessor">>)
        ELSE d

postprocess(self, output_arr) ==
    LET d == CallDelegate(self, "postprocessor", "postprocessor_name", output_arr, {}, Run(output_arr))
    IN  IF d.kind = "raise" /\ d.val = "AttributeError"
        THEN Ret(output_arr, d.calls, <<"Evaluating without postprocessor">>)
        ELSE d

\* predict that feeds the raw targets straight to _predict
predict_unprocessed(self, raw_targets) ==
    LET q == _predict(self, raw_targets)
    IN  [kind |-> q.kind, val |-> q.val,
         calls |-> <<[fn |-> "_predict", arg |-> raw_targets]>> \o q.calls, warns |-> q.warns]

predict(self, raw_targets) ==
    LET c1 == <<[fn |-> "preprocess", arg |-> raw_targets]>>
        p == preprocess(self, raw_targets)
    IN  IF p.kind = "raise" THEN Exc(p.val, c1 \o p.calls, p.warns)
        ELSE LET c2 == <<[fn |-> "_predict", arg |-> p.val]>>
                 q == _predict(self, p.val)
             IN  [kind |-> q.kind, val |-> q.val,
                  calls |-> c1 \o p.calls \o c2 \o q.calls,
                  warns |-> p.warns \o q.warns]

\* ---- the default decoding of decode_prob
Digit == <<"0", "1", "2", "3", "4", "5", "6", "7", "8", "9">>

\* str(i) for i >= 0
RECURSIVE StrOf(_)
StrOf(i) == IF i < 10 THEN <<Digit[i + 1]>> ELSE StrOf(i \div 10) \o <<Digit[(i % 10) + 1]>>

\* '{:.3f}'.format(p) for p >= 0 in units of 1/10000: round to thousandths
\* (ties to even), then the integer part, a point and three digits
Format3(p) ==
    LET q == p \div 10
        r == p % 10
        milli == IF r > 5 \/ (r = 5 /\ q % 2 = 1) THEN q + 1 ELSE q
        f == milli % 1000
    IN  StrOf(milli \div 1000) \o <<".">> \o
        <<Digit[(f \div 100) + 1], Digit[((f \div 10) % 10) + 1], Digit[(f % 10) + 1]>>

\* for i, prob in enumerate(row): entries.append({...})
Entries(row) == [i \in 1..Len(row) |-> [index |-> i - 1, name |-> StrOf(i - 1), prob |-> row[i]]]

\* an unstable step: e goes ahead of the entries with an equal key
InsertDesc_unstable(s, e) ==
    LET ahead == {j \in 1..Len(s) : s[j].prob > e.prob}
        n == IF ahead = {} THEN 0 ELSE CHOOSE j \in ahead : \A l \in ahead : l <= j
    IN  SubSeq(s, 1, n) \o <<e>> \o SubSeq(s, n + 1, Len(s))

\* one step of a stable descending sort: e goes behind every entry whose
\* key is not smaller than its own
InsertDesc(s, e) ==
    LET ahead == {j \in 1..Len(s) : s[j].prob >= e.prob}
        n == IF ahead = {} THEN 0 ELSE CHOOSE j \in ahead : \A l \in ahead : l <= j
    IN  SubSeq(s, 1, n) \o <<e>> \o SubSeq(s, n + 1, Len(s))

\* sorted(entries, key=itemgetter('prob'), reverse=True): stable
RECURSIVE SortedDesc(_)
SortedDesc(s) ==
    IF s = <<>> THEN <<>>
    ELSE InsertDesc(SortedDesc(SubSeq(s, 1, Len(s) - 1)), s[Len(s)])

\* s[:k + 1]
SliceTo_inclusive(s, k) == SubSeq(s, 1, IF k + 1 < Len(s) THEN k + 1 ELSE Len(s))

\* s[:k]
SliceTo(s, k) ==
    LET n == Len(s)
        stop == IF k < 0 THEN (IF n + k < 0 THEN 0 ELSE n + k)
                ELSE (IF k < n THEN k ELSE n)
    IN  SubSeq(s, 1, stop)

\* entry['prob'] = '{:.3f}'.format(entry['prob'])
FormatEntries(s) == [i \in 1..Len(s) |-> [s[i] EXCEPT !.prob = Format3(s[i].prob)]]

DefaultDecode(output_arr, top_probs) ==
    [r \in 1..Len(output_arr) |->
        FormatEntries(SliceTo(SortedDesc(Entries(output_arr[r])), top_probs))]

\* what the helper's working callable returns for (output_arr, top=k)
Decoded(output_arr, k) == [decoder |-> "run", arr |-> output_arr, top |-> k]

\* decode_prob without the except clause
decode_prob_uncaught(self, output_arr) ==
    CallDelegate(self, "prob_decoder", "prob_decoder_name", output_arr,
                 {<<"top", self.attrs["top_probs"]>>}, Decoded(output_arr, self.attrs["top_probs"]))

decode_prob(self, output_arr) ==
    LET top == self.attrs["top_probs"]
        d == CallDelegate(self, "prob_decoder", "prob_decoder_name", output_arr,
                          {<<"top", top>>}, Decoded(output_arr, top))
    IN  IF d.kind = "raise" /\ d.val = "AttributeError"
        THEN Ret(DefaultDecode(output_arr, top), d.calls, <<"Evaluating without class decoder">>)
        ELSE d

\* ------------------------------------------------------- generate_model
\* getattr(model_module, model_cls_name, BareModel): a default in place of the error
LookupClass_default(path, model_cls_name) ==
    IF model_cls_name \in Modules[path].classes
    THEN Ret(model_cls_name, <<>>, <<>>)
    ELSE Ret("BareModel", <<>>, <<>>)

\* getattr(model_module, model_cls_name)
LookupClass(path, model_cls_name) ==
    IF model_cls_name \in Modules[path].classes
    THEN Ret(model_cls_name, <<>>, <<>>)
    ELSE Exc("AttributeError", <<>>, <<>>)

\* model_cls(**kwargs)
Instantiate(cls, t, kw) ==
    CASE ClassInfo[cls].ctor = "BaseModel" -> Ret(BaseModel__init__(cls, t, kw), <<>>, <<>>)
      [] ClassInfo[cls].ctor = "own" -> Ret([cls |-> cls, attrs |-> NoAttrs], <<>>, <<>>)
      [] ClassInfo[cls].ctor = "noargs" ->
            IF t.given \/ DOMAIN kw # {} THEN Exc("TypeError", <<>>, <<>>)
            ELSE Ret(BaseModel__init__(cls, t, kw), <<>>, <<>>)

\* generate_model that enforces conformance instead of warning
generate_model_enforced(model_cls_path, model_cls_name, t, kw) ==
    IF ~Modules[model_cls_path].ok THEN Exc("SyntaxError", <<"exec_module">>, <<>>)
    ELSE LET c == LookupClass(model_cls_path, model_cls_name)
         IN  IF c.kind = "raise" THEN Exc(c.val, <<"exec_module", "getattr">>, <<>>)
             ELSE LET m == Instantiate(c.val, t, kw)
                  IN  IF m.kind = "raise" THEN Exc(m.val, <<"exec_module", "getattr", "construct">>, <<>>)
                      ELSE IF ~ClassInfo[m.val.cls].base
                      THEN Exc("TypeError", <<"exec_module", "getattr", "construct", "isinstance">>, <<>>)
                      ELSE Ret(m.val, <<"exec_module", "getattr", "construct", "isinstance">>, <<>>)

generate_model(model_cls_path, model_cls_name, t, kw) ==
    LET s1 == <<"exec_module">>
    IN  IF ~Modules[model_cls_path].ok THEN Exc("SyntaxError", s1, <<>>)
        ELSE LET s2 == s1 \o <<"getattr">>
                 c == LookupClass(model_cls_path, model_cls_name)
             IN  IF c.kind = "raise" THEN Exc(c.val, s2, <<>>)
                 ELSE LET s3 == s2 \o <<"construct">>
                          m == Instantiate(c.val, t, kw)
                      IN  IF m.kind = "raise" THEN Exc(m.val, s3, <<>>)
                          ELSE Ret(m.val, s3 \o <<"isinstance">>,
                                   IF ~ClassInfo[m.val.cls].base
                                   THEN <<"Loaded model is not an instance of BaseModel">>
                                   ELSE <<>>)

\* ---------------------------------------------------------------- state
VARIABLES
    pc,     \* "start": no model yet; "ready": inst is the caller's model;
            \* "failed": generate_model raised
    inst,   \* the model instance: [cls, attrs]
    op,     \* the last call made by the caller ("none", "pending" before one)
    arg,    \* its argument
    res     \* its outcome

vars == <<pc, inst, op, arg, res>>

NoRes == [kind |-> "none", val |-> "none", calls |-> <<>>, warns |-> <<>>]

Init ==
    /\ pc = "start"
    /\ inst = NoInst
    /\ op = "none"
    /\ arg = "none"
    /\ res = NoRes

\* BaseModel(top_probs=k, **kwargs)
Construct ==
    /\ pc = "start"
    /\ \E t \in TopChoices, kw \in KwMaps :
          /\ inst' = BaseModel__init__("BaseModel", t, kw)
          /\ arg' = [top |-> t, kwargs |-> kw]
          /\ res' = Ret(inst', <<>>, <<>>)
    /\ pc' = "ready"
    /\ op' = "BaseModel"

GenerateModel ==
    /\ pc = "start"
    /\ \E path \in Paths, name \in ClassNames, t \in TopChoices, kw \in KwMaps :
          /\ arg' = [path |-> path, name |-> name, top |-> t, kwargs |-> kw]
          /\ res' = generate_model(path, name, t, kw)
    /\ op' = "generate_model"
    /\ IF res'.kind = "return"
       THEN inst' = res'.val /\ pc' = "ready"
       ELSE inst' = inst /\ pc' = "failed"

\* the caller holds a model that has BaseModel's methods
Callable == pc = "ready" /\ op # "pending" /\ ClassInfo[inst.cls].base

CallLoad ==
    /\ Callable
    /\ op' = "load" /\ arg' = "dirA" /\ res' = load(inst, "dirA")
    /\ UNCHANGED <<pc, inst>>

CallPredictImpl ==
    /\ Callable
    /\ \E x \in Raw : arg' = x /\ res' = _predict(inst, x)
    /\ op' = "_predict"
    /\ UNCHANGED <<pc, inst>>

CallPredict ==
    /\ Callable
    /\ \E x \in Raw : arg' = x /\ res' = predict(inst, x)
    /\ op' = "predict"
    /\ UNCHANGED <<pc, inst>>

CallPreprocess ==
    /\ Callable
    /\ \E x \in Raw : arg' = x /\ res' = preprocess(inst, x)
    /\ op' = "preprocess"
    /\ UNCHANGED <<pc, inst>>

CallPostprocess ==
    /\ Callable
    /\ \E x \in Raw : arg' = x /\ res' = postprocess(inst, x)
    /\ op' = "postprocess"
    /\ UNCHANGED <<pc, inst>>

CallDecodeProb ==
    /\ Callable
    /\ \E a \in SmallArrays : arg' = a /\ res' = decode_prob(inst, a)
    /\ op' = "decode_prob"
    /\ UNCHANGED <<pc, inst>>

Next ==
    \/ Construct
    \/ GenerateModel
    \/ CallLoad
    \/ CallPredictImpl
    \/ CallPredict
    \/ CallPreprocess
    \/ CallPostprocess
    \/ CallDecodeProb

Spec == Init /\ [][Next]_vars

\* ---- decode_prob on its own: a BaseModel and an output_arr are drawn,
\* then decode_prob is applied to them
InitDecode ==
    /\ pc = "ready"
    /\ \E t \in TopChoices, kw \in {k \in KwMaps : DOMAIN k \subseteq {"prob_decoder", "prob_decoder_name"}
                                                   /\ \A key \in DOMAIN k : k[key] \in {"Helper", "run"}} :
          inst = BaseModel__init__("BaseModel", t, kw)
    /\ op = "pending"
    /\ arg \in Arrays
    /\ res = NoRes

ApplyDecodeProb ==
    /\ pc = "ready" /\ op = "pending"
    /\ op' = "decode_prob"
    /\ res' = decode_prob(inst, arg)
    /\ UNCHANGED <<pc, inst, arg>>

NextDecode == ApplyDecodeProb

SpecDecode == InitDecode /\ [][NextDecode]_vars

\* ------------------------------------------------------------ properties
\* the delegate of a method is absent: the object or the name is not set on
\* the instance, or the object has no attribute of that name
Absent(objKey, nameKey) ==
    \/ objKey \notin DOMAIN inst.attrs
    \/ nameKey \notin DOMAIN inst.attrs
    \/ inst.attrs[nameKey] \notin DOMAIN HelperMethods

Unset(objKey, nameKey) ==
    objKey \notin DOMAIN inst.attrs \/ nameKey \notin DOMAIN inst.attrs

CallsOf(f) == {i \in 1..Len(res.calls) : res.calls[i].fn = f}

\* C1: predict(raw) is _predict(preprocess(raw)): preprocess is called once,
\* first and on raw; when it returns, _predict is called once, after it and
\* on its result, and predict's outcome is _predict's outcome unmodified;
\* when it raises, that error is predict's outcome; postprocess and
\* decode_prob are never called.
C1_PredictIsComposition ==
    op = "predict" =>
        LET p == preprocess(inst, arg)
        IN  /\ CallsOf("postprocess") = {} /\ CallsOf("decode_prob") = {}
            /\ CallsOf("preprocess") = {1}
            /\ res.calls[1].arg = arg
            /\ p.kind = "return" =>
                  LET q == _predict(inst, p.val)
                  IN  /\ Cardinality(CallsOf("_predict")) = 1
                      /\ \A i \in CallsOf("_predict") : i > 1 /\ res.calls[i].arg = p.val
                      /\ res.kind = q.kind
                      /\ res.val = q.val
            /\ p.kind = "raise" =>
                  /\ CallsOf("_predict") = {}
                  /\ res.kind = "raise"
                  /\ res.val = p.val

C1_Witness ==
    /\ op = "predict"
    /\ ~Absent("preprocessor", "preprocessor_name")
    /\ res.kind = "return"
    /\ res.val = Infer(Run(arg))
    /\ Len(res.calls) = 3

\* C4: with preprocessor or preprocessor_name not set, preprocess returns its
\* argument unchanged, warns exactly once and raises nothing; likewise
\* postprocess with postprocessor or postprocessor_name not set.
C4_IdentityFallback ==
    /\ (op = "preprocess" /\ Unset("preprocessor", "preprocessor_name")) =>
          /\ res.kind = "return"
          /\ res.val = arg
          /\ res.warns = <<"Evaluating without preprocessor">>
    /\ (op = "postprocess" /\ Unset("postprocessor", "postprocessor_name")) =>
          /\ res.kind = "return"
          /\ res.val = arg
          /\ res.warns = <<"Evaluating without postprocessor">>

C4_Witness ==
    /\ op = "preprocess"
    /\ "preprocessor" \in DOMAIN inst.attrs
    /\ "preprocessor_name" \notin DOMAIN inst.attrs
    /\ res.kind = "return"
    /\ res.val = arg
    /\ Len(res.warns) = 1

\* C6: whenever generate_model gets as far as constructing an instance it
\* returns exactly that instance, and it warns if and only if the instance
\* is not a BaseModel.
C6_AdvisoryConformance ==
    (op = "generate_model" /\ Modules[arg.path].ok /\ arg.name \in Modules[arg.path].classes) =>
        LET m == Instantiate(arg.name, arg.top, arg.kwargs)
        IN  m.kind = "return" =>
               /\ res.kind = "return"
               /\ res.val = m.val
               /\ inst = m.val
               /\ Len(res.warns) <= 1
               /\ (Len(res.warns) = 1) <=> ~ClassInfo[m.val.cls].base

C6_Witness ==
    /\ op = "generate_model"
    /\ res.kind = "return"
    /\ res.val.cls = "Plain"
    /\ Len(res.warns) = 1

\* C7: generate_model runs load source, look up class, construct, conformance
\* check in that order and stops at the first step that fails, whose error
\* is the call's error; a class name the source does not bind gives an
\* AttributeError with no construction, no warning and no instance.
StepOrder == <<"exec_module", "getattr", "construct", "isinstance">>

C7_ErrorsPropagate ==
    op = "generate_model" =>
        /\ Len(res.calls) <= Len(StepOrder)
        /\ res.calls = SubSeq(StepOrder, 1, Len(res.calls))
        /\ res.kind = "return" <=> Len(res.calls) = Len(StepOrder)
        /\ res.kind = "raise" =>
              /\ res.warns = <<>>
              /\ inst = NoInst
              /\ pc = "failed"
              /\ ~Modules[arg.path].ok <=> (Len(res.calls) = 1 /\ res.val = "SyntaxError")
              /\ (Modules[arg.path].ok /\ arg.name \notin Modules[arg.path].classes)
                    <=> (Len(res.calls) = 2 /\ res.val = "AttributeError")
        /\ (Modules[arg.path].ok /\ arg.name \notin Modules[arg.path].classes) => res.kind = "raise"

C7_Witness ==
    /\ op = "generate_model"
    /\ arg.path = "models"
    /\ arg.name = "Missing"
    /\ res.kind = "raise"
    /\ res.val = "AttributeError"
    /\ res.calls = <<"exec_module", "getattr">>

\* C8 as stated: on a class that overrides neither, load, _predict and
\* predict always fail with NotImplementedError.
C8_AlwaysNotImplemented ==
    (op \in {"load", "_predict", "predict"} /\ ~ClassInfo[inst.cls].impl) =>
        res.kind = "raise" /\ res.val = "NotImplementedError"

\* C8 amended: load and _predict always fail with NotImplementedError;
\* predict never returns: it fails with NotImplementedError when preprocess
\* returned, and with the error preprocess raised otherwise.
C8_NeverReturns ==
    (op \in {"load", "_predict", "predict"} /\ ~ClassInfo[inst.cls].impl) =>
        /\ op \in {"load", "_predict"} => res.kind = "raise" /\ res.val = "NotImplementedError"
        /\ op = "predict" =>
              /\ res.kind = "raise"
              /\ CallsOf("preprocess") = {1}
              /\ res.val = "NotImplementedError" <=> CallsOf("_predict") # {}
              /\ CallsOf("_predict") = {} => res.val = HelperMethods[inst.attrs["preprocessor_name"]]

C8_Witness ==
    /\ op = "predict"
    /\ ~ClassInfo[inst.cls].impl
    /\ ~Absent("preprocessor", "preprocessor_name")
    /\ res.kind = "raise"
    /\ res.val = "NotImplementedError"
    /\ CallsOf("_predict") # {}

\* C9: after BaseModel(top_probs=k, **kwargs), or generate_model for a class
\* with BaseModel's constructor, every key of kwargs is an attribute holding
\* the passed value, top_probs is k (5 when not passed), and the object's
\* class is the requested one.
C9_KwargsBecomeAttributes ==
    (\/ op = "BaseModel"
     \/ op = "generate_model" /\ res.kind = "return" /\ ClassInfo[res.val.cls].ctor = "BaseModel") =>
        /\ \A key \in DOMAIN arg.kwargs :
              key \in DOMAIN res.val.attrs /\ res.val.attrs[key] = arg.kwargs[key]
        /\ res.val.attrs["top_probs"] = IF arg.top.given THEN arg.top.top ELSE 5
        /\ op = "generate_model" => res.val.cls = arg.name
        /\ op = "BaseModel" => res.val.cls = "BaseModel"
        /\ inst = res.val

C9_Witness ==
    /\ op = "generate_model"
    /\ res.kind = "return"
    /\ res.val.cls = "GoodModel"
    /\ Cardinality(DOMAIN arg.kwargs) = MaxKwargs
    /\ "data_dir" \in DOMAIN res.val.attrs
    /\ ~arg.top.given
    /\ res.val.attrs["top_probs"] = 5

\* C10 as stated: for preprocess, postprocess and decode_prob the warned
\* fallback is taken exactly when the delegate is absent; a delegate that is
\* present is called once and its outcome, result or error, is the method's.
DelegateOutcome(objKey, nameKey) ==
    /\ res.warns # <<>> <=> Absent(objKey, nameKey)
    /\ ~Absent(objKey, nameKey) =>
          /\ Len(res.calls) = 1
          /\ res.calls[1].method = inst.attrs[nameKey]
          /\ res.calls[1].arg = arg
          /\ IF HelperMethods[inst.attrs[nameKey]] = "ok"
             THEN res.kind = "return"
             ELSE res.kind = "raise" /\ res.val = HelperMethods[inst.attrs[nameKey]]

C10_FallbackOnlyWhenAbsent ==
    /\ op = "preprocess" => DelegateOutcome("preprocessor", "preprocessor_name")
    /\ op = "postprocess" => DelegateOutcome("postprocessor", "postprocessor_name")
    /\ op = "decode_prob" => DelegateOutcome("prob_decoder", "prob_decoder_name")


\* ---- the default decoding (checked under SpecDecode)
DefaultTaken == op = "decode_prob" /\ Unset("prob_decoder", "prob_decoder_name")

MinOf(a, b) == IF a < b THEN a ELSE b

\* C2: with no prob_decoder configured, decode_prob returns one list per
\* input row, in the input's row order, and the list of a row has
\* min(top_probs, number of classes of the row) entries.
C2_RowLengths ==
    DefaultTaken =>
        /\ res.kind = "return"
        /\ Len(res.val) = Len(arg)
        /\ \A r \in 1..Len(arg) :
              /\ Len(res.val[r]) = MinOf(inst.attrs["top_probs"], Len(arg[r]))
              /\ \A i \in 1..Len(res.val[r]) :
                    /\ res.val[r][i].index \in 0..(Len(arg[r]) - 1)
                    /\ res.val[r][i].prob = Format3(arg[r][res.val[r][i].index + 1])

C2_Witness ==
    /\ DefaultTaken
    /\ inst.attrs["top_probs"] = 1
    /\ Len(arg) = 2
    /\ Len(arg[1]) = 2 /\ Len(res.val[1]) = 1
    /\ Len(arg[2]) = 1 /\ Len(res.val[2]) = 1
    /\ res.val[1][1].prob # res.val[2][1].prob

\* the source probability of the i-th entry returned for row r
SrcProb(r, i) == arg[r][res.val[r][i].index + 1]

\* C3: with no prob_decoder configured, the entries of a returned row are in
\* non-increasing order of their source probabilities, entries of equal
\* probability are in increasing class-index order, and no dropped class
\* has a larger probability than a retained one.
C3_SortedStableTop ==
    DefaultTaken =>
        \A r \in 1..Len(arg) :
            LET n == Len(res.val[r])
                kept == {res.val[r][i].index : i \in 1..n}
            IN  /\ Cardinality(kept) = n
                /\ \A i, j \in 1..n :
                      i < j =>
                         /\ SrcProb(r, i) >= SrcProb(r, j)
                         /\ SrcProb(r, i) = SrcProb(r, j) => res.val[r][i].index < res.val[r][j].index
                /\ \A d \in (0..(Len(arg[r]) - 1)) \ kept :
                      \A i \in 1..n : SrcProb(r, i) >= arg[r][d + 1]

\* top_probs=1: a row (low, high) yields index 1 and drops index 0, and a
\* row of two equal probabilities yields index 0 and drops index 1
C3_Witness ==
    /\ DefaultTaken
    /\ inst.attrs["top_probs"] = 1
    /\ Len(arg) = 2
    /\ Len(arg[1]) = 2 /\ arg[1][1] < arg[1][2]
    /\ Len(arg[2]) = 2 /\ arg[2][1] = arg[2][2]
    /\ Len(res.val[1]) = 1
    /\ res.val[1][1].index = 1
    /\ res.val[1][1].name = <<"1">>
    /\ Len(res.val[2]) = 1
    /\ res.val[2][1].index = 0

\* Python's == between the list of lists of dicts that the default decoding
\* returns and a list of lists of numbers: equal lengths, equal row lengths,
\* equal elements; a dict never equals a number
DictEqNumber(e, x) == FALSE

SameAsInput(dec, arr) ==
    /\ Len(dec) = Len(arr)
    /\ \A r \in 1..Len(dec) :
          /\ Len(dec[r]) = Len(arr[r])
          /\ \A i \in 1..Len(dec[r]) : DictEqNumber(dec[r][i], arr[r][i])

\* C5 as stated: with no prob_decoder configured, decode_prob warns, does
\* not raise, and returns its input output_arr unchanged.
C5_DecodeIdentity ==
    DefaultTaken =>
        /\ res.kind = "return"
        /\ res.warns # <<>>
        /\ SameAsInput(res.val, arg)

\* C5 amended: with no prob_decoder configured, decode_prob warns once, does
\* not raise, and returns a new list with one list per row of output_arr,
\* which equals output_arr only when every row of output_arr is empty.
C5_DecodeWarnsAndDecodes ==
    DefaultTaken =>
        /\ res.kind = "return"
        /\ res.warns = <<"Evaluating without class decoder">>
        /\ res.calls = <<>>
        /\ Len(res.val) = Len(arg)
        /\ SameAsInput(res.val, arg) <=> (\A r \in 1..Len(arg) : arg[r] = <<>>)

C5_Witness ==
    /\ DefaultTaken
    /\ res.kind = "return"
    /\ Len(res.warns) = 1
    /\ Len(arg) = 1
    /\ Len(arg[1]) = 2
    /\ Len(res.val[1]) = 2
    /\ res.val[1][1].prob = <<"0", ".", "2", "0", "1">>
    /\ ~SameAsInput(res.val, arg)


====
